---- MODULE Spec2Model ----
(***************************************************************************)
(* A model of teuthology/suite.py: the suite scheduler (main), the matrix  *)
(* compiler (build_matrix, combine_path) and the result classifier         *)
(* (get_jobs, build_email_body) and the wait for results (_results).       *)
(*                                                                         *)
(* Python strings are sequences of atomic tokens.  A name is a sequence of *)
(* TLA+ strings: one token per directory entry name, plus the punctuation  *)
(* tokens "/", "{", "}" and " ".  A config text is a sequence of records:  *)
(* one [k, v] record per "key: value" line, plus the newline token NL.     *)
(* A Python value is a record [t, s]: t is its type ("None", "str",        *)
(* "list") and s the tokens of the string (for a list: of its one item).   *)
(*                                                                         *)
(* build_matrix refers to the module stat, which suite.py never imports;   *)
(* the model reads stat.S_ISREG and stat.S_ISDIR as the standard library's *)
(* functions.                                                              *)
(***************************************************************************)
EXTENDS Integers, Sequences, FiniteSets, TLC

\* ------------------------------------------------------------ Python values

NL == [k |-> "NL", v |-> ""]
KV(key, value) == [k |-> key, v |-> value]

PyNone == [t |-> "None", s |-> <<>>]
PyStr(toks) == [t |-> "str", s |-> toks]
PyList1(toks) == [t |-> "list", s |-> toks]

\* Python truthiness of None and of a string
Truthy(x) == x.t # "None" /\ ~(x.t = "str" /\ x.s = <<>>)

\* os.path.join(left, right) on two strings
PathJoin(l, r) ==
    IF r # <<>> /\ r[1] = "/" THEN r
    ELSE IF l = <<>> \/ l[Len(l)] = "/" THEN l \o r
    ELSE l \o <<"/">> \o r

\* combine_path(left, right): right may be None
combine_path(left, right) ==
    IF Truthy(right) THEN PyStr(PathJoin(left.s, right.s)) ELSE left

\* sep.join(strs) for a sequence of token sequences
RECURSIVE Join(_, _)
Join(sep, strs) ==
    IF strs = <<>> THEN <<>>
    ELSE IF Len(strs) = 1 THEN strs[1]
    ELSE strs[1] \o sep \o Join(sep, Tail(strs))

\* ------------------------------------------------------------ the file tree

\* Entry names in the order Python's sorted() gives them ('%' < '+' < letters)
NameOrder == <<"%", "+", "a", "b", "x.yaml", "y.yaml">>

Rank(fn) == CHOOSE i \in 1..Len(NameOrder) : NameOrder[i] = fn

\* sorted(os.listdir(path))
RECURSIVE Sorted(_)
Sorted(S) ==
    IF S = {} THEN <<>>
    ELSE LET m == CHOOSE x \in S : \A y \in S : Rank(x) <= Rank(y)
         IN <<m>> \o Sorted(S \ {m})

\* path.endswith('.yaml')
EndsWithYaml(fn) == fn \in {"x.yaml", "y.yaml"}

\* files.remove(marker)
RECURSIVE Remove(_, _)
Remove(files, marker) ==
    IF files = <<>> THEN <<>>
    ELSE IF Head(files) = marker THEN Tail(files)
    ELSE <<Head(files)>> \o Remove(Tail(files), marker)

InSeq(x, sq) == \E i \in 1..Len(sq) : sq[i] = x

\* ------------------------------------------------------------ build_matrix

Ok(out) == [st |-> "ok", out |-> out]
RetNone == [st |-> "None", out |-> <<>>]
Raise(what) == [st |-> what, out |-> <<>>]

Combo(name, val) == [name |-> name, val |-> val]

\* [(combine_path(fn, a[0]), a[1]) for a in raw]
Retag(fn, raw) ==
    [i \in 1..Len(raw) |-> Combo(combine_path(PyStr(<<fn>>), raw[i].name), raw[i].val)]

\* itertools.product(*items): the last list varies fastest
RECURSIVE Product(_)
RECURSIVE Prepend(_, _)
Prepend(a, tuples) ==
    IF tuples = <<>> THEN <<>>
    ELSE << <<a>> \o Head(tuples) >> \o Prepend(a, Tail(tuples))

RECURSIVE ProductRows(_, _)
ProductRows(first, rest) ==
    IF first = <<>> THEN <<>>
    ELSE Prepend(Head(first), rest) \o ProductRows(Tail(first), rest)

Product(items) ==
    IF items = <<>> THEN << <<>> >>
    ELSE ProductRows(Head(items), Product(Tail(items)))

AllStr(vals) == \A i \in 1..Len(vals) : vals[i].t = "str"

\* return [('+', ['\n'.join([a[1] for a in out])])]
ConcatResult(out) ==
    IF ~AllStr([i \in 1..Len(out) |-> out[i].val]) THEN Raise("TypeError")
    ELSE Ok(<< Combo(PyStr(<<"+">>),
                     PyList1(Join(<<NL>>, [i \in 1..Len(out) |-> out[i].val.s]))) >>)

\* the convolve name without its braces: a plausible slip
ConvolveNameNoBrace(a) ==
    PyStr(Join(<<" ">>, [i \in 1..Len(a) |-> a[i].name.s]))

\* name = '{' + ' '.join([i[0] for i in a]) + '}'
ConvolveName(a) ==
    PyStr(<<"{">> \o Join(<<" ">>, [i \in 1..Len(a) |-> a[i].name.s]) \o <<"}">>)

\* val = '\n'.join([i[1] for i in a])
ConvolveVal(a) == PyStr(Join(<<NL>>, [i \in 1..Len(a) |-> a[i].val.s]))

\* the loop over itertools.product(*items); join raises on a non-string item
ConvolveResult(items) ==
    LET tuples == Product(items)
    IN IF \E j \in 1..Len(tuples) : ~AllStr([i \in 1..Len(tuples[j]) |-> tuples[j][i].val])
       THEN Raise("TypeError")
       ELSE Ok([j \in 1..Len(tuples) |-> Combo(ConvolveName(tuples[j]), ConvolveVal(tuples[j]))])

RECURSIVE build_matrix(_, _)
RECURSIVE ConcatLoop(_, _, _)
RECURSIVE ConvolveLoop(_, _, _)
RECURSIVE ListLoop(_, _, _)

\* for fn in files: out.extend(build_matrix(os.path.join(path, fn)))
ConcatLoop(node, files, out) ==
    IF files = <<>> THEN ConcatResult(out)
    ELSE LET raw == build_matrix(Head(files), node.ents[Head(files)])
         IN IF raw.st = "None" THEN Raise("TypeError")
            ELSE IF raw.st # "ok" THEN raw
            ELSE ConcatLoop(node, Tail(files), out \o raw.out)

\* for fn in files: items.append([(combine_path(fn, a[0]), a[1]) for a in raw])
ConvolveLoop(node, files, items) ==
    IF files = <<>> THEN ConvolveResult(items)
    ELSE LET raw == build_matrix(Head(files), node.ents[Head(files)])
         IN IF raw.st = "None" THEN Raise("TypeError")
            ELSE IF raw.st # "ok" THEN raw
            ELSE ConvolveLoop(node, Tail(files), Append(items, Retag(Head(files), raw.out)))

\* for fn in files: out.extend([(combine_path(fn, a[0]), a[1]) for a in raw])
ListLoop(node, files, out) ==
    IF files = <<>> THEN Ok(out)
    ELSE LET raw == build_matrix(Head(files), node.ents[Head(files)])
         IN IF raw.st = "None" THEN Raise("TypeError")
            ELSE IF raw.st # "ok" THEN raw
            ELSE ListLoop(node, Tail(files), out \o Retag(Head(files), raw.out))

\* build_matrix(path): fn is the last component of path, node the entry there
build_matrix(fn, node) ==
    IF ~node.isdir
    THEN IF EndsWithYaml(fn) THEN Ok(<< Combo(PyNone, PyStr(node.text)) >>)
         ELSE RetNone
    ELSE LET files == Sorted(DOMAIN node.ents)
         IN IF InSeq("+", files) THEN ConcatLoop(node, Remove(files, "+"), <<>>)
            ELSE IF InSeq("%", files) THEN ConvolveLoop(node, Remove(files, "%"), <<>>)
            ELSE ListLoop(node, files, <<>>)

\* ------------------------------------------------------------ main: helpers

None == "None"

\* yaml.load(text).get(key): the value of the last "key: value" line, or None
RECURSIVE YamlGet(_, _)
YamlGet(text, key) ==
    IF text = <<>> THEN None
    ELSE IF text[Len(text)].k = key THEN text[Len(text)].v
    ELSE YamlGet(SubSeq(text, 1, Len(text) - 1), key)

\* yaml.load(text) is None: the text holds no "key: value" line
YamlIsNone(text) == \A i \in 1..Len(text) : text[i] = NL

\* get_machine_type(config): the first override file that sets machine_type
RECURSIVE get_machine_type(_)
get_machine_type(config) ==
    IF config = <<>> THEN None
    ELSE IF Head(config) # None THEN Head(config)
    ELSE get_machine_type(Tail(config))

\* for machine in locks: if machine['type'] == machine_type: return machine['arch']
RECURSIVE FirstOfType(_, _)
FirstOfType(locks, machine_type) ==
    IF locks = <<>> THEN None
    ELSE IF Head(locks).type = machine_type THEN Head(locks).arch
    ELSE FirstOfType(Tail(locks), machine_type)

\* get_arch(config): the arch of the first locked machine of a configured type
RECURSIVE get_arch(_, _)
get_arch(config, locks) ==
    IF config = <<>> THEN None
    ELSE IF Head(config) # None /\ FirstOfType(locks, Head(config)) # None
         THEN FirstOfType(locks, Head(config))
    ELSE get_arch(Tail(config), locks)

\* sorted(collections): insertion of each name by rank, duplicates kept
RECURSIVE SortedSeq(_)
RECURSIVE Insert(_, _)
Insert(x, sq) ==
    IF sq = <<>> THEN <<x>>
    ELSE IF Rank(x) <= Rank(Head(sq)) THEN <<x>> \o sq
    ELSE <<Head(sq)>> \o Insert(x, Tail(sq))

SortedSeq(sq) == IF sq = <<>> THEN <<>> ELSE Insert(Head(sq), SortedSeq(Tail(sq)))

\* the selection filter of lines 141-164: why the combination is skipped, or ""
SkipReason(text, arch, machine_type) ==
    LET os_type == YamlGet(text, "os_type")
        exclude_arch == YamlGet(text, "exclude_arch")
        exclude_os_type == YamlGet(text, "exclude_os_type")
    IN IF exclude_arch # None /\ exclude_arch = arch THEN "excluded_arch"
       ELSE IF exclude_os_type # None /\ exclude_os_type = os_type THEN "excluded_os_type"
       ELSE IF machine_type # "vps" /\ os_type # None /\ os_type # "ubuntu"
            THEN "non-ubuntu on baremetal"
       ELSE ""

\* ------------------------------------------------------------ input trees

File(text) == [isdir |-> FALSE, text |-> text, ents |-> <<>>]
Dir(ents) == [isdir |-> TRUE, text |-> <<>>, ents |-> ents]

\* the '+' and '%' marker entries are empty regular files
Marker == File(<<>>)

DocUbuntu == <<KV("os_type", "ubuntu")>>
DocCentos == <<KV("os_type", "centos")>>
DocExclArch == <<KV("exclude_arch", "arm"), NL, KV("tasks", "t")>>
DocExclOs == <<KV("exclude_os_type", "centos")>>

Docs == {DocUbuntu, DocCentos, DocExclArch, DocExclOs}
MatrixDocs == {DocUbuntu, DocExclArch}

\* the most entries, markers aside, of a directory of the compiled trees
MaxKids == 2

MarkerSets == SUBSET {"+", "%"}

\* directories holding up to two config files, with any markers
Dir1Set(docs) ==
    { Dir([n \in M \cup L |-> IF n \in M THEN Marker ELSE File(f[n])]) :
        <<M, L, f>> \in
          UNION { UNION { {<<M1, L1, g>> : g \in [L1 -> docs]} :
                          L1 \in SUBSET {"x.yaml", "y.yaml"} } :
                  M1 \in MarkerSets } }

\* directories holding up to MaxKids of: directories a and b, file x.yaml
Dir2Set(docs) ==
    { Dir([n \in M \cup K |-> IF n \in M THEN Marker ELSE f[n]]) :
        <<M, K, f>> \in
          UNION { UNION { {<<M1, K1, g>> :
                            g \in { h \in [K1 -> Dir1Set(docs) \cup {File(d) : d \in docs}] :
                                      \A n \in K1 : h[n].isdir <=> n \in {"a", "b"} }} :
                          K1 \in {K2 \in SUBSET {"a", "b", "x.yaml"} :
                                    Cardinality(K2) <= MaxKids} } :
                  M1 \in MarkerSets } }

\* the path handed to build_matrix: its last component and what is there
MatrixTrees ==
    {[fn |-> "a", node |-> n] : n \in Dir1Set(MatrixDocs) \cup Dir2Set(MatrixDocs)}
    \cup {[fn |-> f, node |-> File(d)] : f \in {"a", "x.yaml"}, d \in MatrixDocs}

\* ------------------------------------------------------------ state

\* the collections main compiles: one-level directories with at most one marker
SuiteTrees == {n \in Dir1Set(Docs) : ~({"+", "%"} \subseteq DOMAIN n.ents)}

\* the most collections named on the command line
MaxCollections == 2

CollectionArgs ==
    UNION {[1..n -> {"a", "b"}] : n \in 1..MaxCollections}

\* args.config, each override file as the machine_type it sets, and the
\* machine inventory lock.list_locks returns
ConfigArgs == {<<>>, <<"vps">>, <<"plana">>, <<None, "plana">>}
Inventories ==
    { <<>>,
      <<[type |-> "plana", arch |-> "arm"]>>,
      <<[type |-> "vps", arch |-> "x86_64"], [type |-> "plana", arch |-> "x86_64"],
        [type |-> "vps", arch |-> "arm"]>> }

\* what get_machine_type(args.config) and get_arch(args.config) can return
Resolved ==
    {<<get_machine_type(config), get_arch(config, locks)>> :
        config \in ConfigArgs, locks \in Inventories}

VARIABLES
    bm_fn,       \* build_matrix alone: the last component of path
    bm_node,     \* build_matrix alone: the file or directory at path
    bm_ret,      \* build_matrix alone: what the call returned or raised
    pc,          \* main: where control is
    dry_run,     \* main: args.dry_run
    collections, \* main: args.collections
    order,       \* main: sorted(collections)
    machine_type,\* main: get_machine_type(args.config)
    arch,        \* main: get_arch(args.config)
    ci,          \* main: index of the collection of the outer loop
    configs,     \* main: the (description, config) pairs of the collection
    ki,          \* main: index of the combination of the inner loop
    temps,       \* main: the transient files that exist
    ntemps,      \* main: how many transient files were created
    pending,     \* main: the exception raised inside the try block, or ""
    error,       \* main: the exception main ended with, or ""
    calls,       \* main: the scheduler invocations made, in order
    would_run,   \* main: the 'would run' lines logged
    skipped,     \* main: the 'Skipping' lines logged
    mark,        \* main: Len(calls) when the current collection was entered
    archive,     \* build_email_body: the entries of archive_dir
    em_pc,       \* build_email_body: where control is
    jobs,        \* build_email_body: get_jobs(archive_dir)
    ji,          \* build_email_body: index of the job of the loop
    failed,      \* build_email_body: the keys of the dict failed
    hung,        \* build_email_body: the keys of the dict hung
    passed,      \* build_email_body: the keys of the dict passed
    em_error,    \* build_email_body: the exception it ended with, or ""
    subject,     \* build_email_body: the parts of the subject returned
    r_pc,        \* _results: where control is
    timeout,     \* _results: args.timeout, in seconds
    running_tests, \* _results: the directories still waited for
    now,         \* _results: time.time() - starttime, in seconds
    warned       \* _results: the 'did not finish before timeout' warning was logged

bmvars == <<bm_fn, bm_node, bm_ret>>
mainvars == <<pc, dry_run, collections, order, machine_type, arch, ci, configs, ki, temps,
              ntemps, pending, error, calls, would_run, skipped, mark>>
emvars == <<archive, em_pc, jobs, ji, failed, hung, passed, em_error, subject>>
resvars == <<r_pc, timeout, running_tests, now, warned>>
vars == <<bmvars, mainvars, emvars, resvars>>

NotCalled == [st |-> "not called", out |-> <<>>]

\* main not running
MainIdle ==
    /\ pc = "idle" /\ dry_run = FALSE /\ collections = <<>>
    /\ order = <<>>
    /\ machine_type = None /\ arch = None /\ ci = 0 /\ configs = <<>> /\ ki = 0
    /\ temps = {} /\ ntemps = 0 /\ pending = "" /\ error = ""
    /\ calls = <<>> /\ would_run = <<>> /\ skipped = <<>> /\ mark = 0

\* build_matrix not under test
MatrixIdle == bm_fn = "a" /\ bm_node = File(<<>>) /\ bm_ret = NotCalled

\* build_email_body not running
EmailIdle ==
    /\ archive = <<>> /\ em_pc = "idle" /\ jobs = <<>> /\ ji = 0
    /\ failed = {} /\ hung = {} /\ passed = {} /\ em_error = "" /\ subject = <<>>

\* _results not running
ResultsIdle ==
    /\ r_pc = "idle" /\ timeout = 0 /\ running_tests = <<>> /\ now = 0 /\ warned = FALSE

InitMatrix ==
    /\ \E t \in MatrixTrees : bm_fn = t.fn /\ bm_node = t.node
    /\ bm_ret = NotCalled
    /\ MainIdle
    /\ EmailIdle
    /\ ResultsIdle

\* one call of build_matrix(path)
CallBuildMatrix ==
    /\ bm_ret = NotCalled
    /\ bm_ret' = build_matrix(bm_fn, bm_node)
    /\ UNCHANGED <<bm_fn, bm_node, mainvars, emvars, resvars>>

NextMatrix == CallBuildMatrix

SpecMatrix == InitMatrix /\ [][NextMatrix]_vars

\* ------------------------------------------------------------ main

Init ==
    /\ MatrixIdle
    /\ EmailIdle
    /\ ResultsIdle
    /\ pc = "start"
    /\ dry_run \in BOOLEAN
    /\ collections \in CollectionArgs
    /\ order = <<>> /\ machine_type = None /\ arch = None
    /\ ci = 0 /\ configs = <<>> /\ ki = 0
    /\ temps = {} /\ ntemps = 0 /\ pending = "" /\ error = ""
    /\ calls = <<>> /\ would_run = <<>> /\ skipped = <<>> /\ mark = 0

MainArgs == <<dry_run, collections>>

\* lines 121-132: every collection must be a directory; then they are sorted
CheckCollections ==
    /\ pc = "start"
    /\ \E alldirs \in BOOLEAN :
          IF alldirs
          THEN /\ pc' = "collection" /\ ci' = 1 /\ error' = error
               /\ order' = SortedSeq(collections)
          ELSE /\ pc' = "exit" /\ error' = "SystemExit"
               /\ UNCHANGED <<ci, order>>
    /\ UNCHANGED <<bmvars, emvars, resvars, MainArgs, machine_type, arch, configs, ki, temps, ntemps,
                   pending, calls, would_run, skipped, mark>>

\* [(combine_path(collection_name, a[0]), a[1]) for a in build_matrix(collection)]
Descriptions(collection_name, raw) ==
    [j \in 1..Len(raw) |->
        Combo(combine_path(PyStr(<<collection_name>>), raw[j].name), raw[j].val)]

\* lines 132-137: the next collection is compiled from what is on disk, and
\* the override files and the machine inventory are read
EnterCollection ==
    /\ pc = "collection" /\ ci <= Len(order)
    /\ \E tree \in SuiteTrees :
          LET ret == build_matrix(order[ci], tree)
          IN IF ret.st # "ok"
             THEN /\ pc' = "raised" /\ error' = "TypeError"
                  /\ UNCHANGED <<ci, configs, ki>>
                  /\ UNCHANGED <<machine_type, arch>>
             ELSE IF ret.out = <<>>
             THEN /\ pc' = "collection" /\ ci' = ci + 1 /\ error' = error
                  /\ UNCHANGED <<configs, ki, machine_type, arch>>
             ELSE /\ pc' = "config" /\ ci' = ci /\ error' = error
                  /\ configs' = Descriptions(order[ci], ret.out)
                  /\ ki' = 1
                  /\ \E env \in Resolved : machine_type' = env[1] /\ arch' = env[2]
    /\ mark' = Len(calls)
    /\ UNCHANGED <<bmvars, emvars, resvars, MainArgs, order, temps, ntemps, pending, calls, would_run,
                   skipped>>

\* the inner loop moves to the next combination, or the outer loop to the
\* next collection; configs, arch and machine_type are rebound there before
\* they are read again, so they are forgotten here
NextCombination ==
    IF ki + 1 > Len(configs)
    THEN /\ pc' = "collection" /\ ci' = ci + 1 /\ ki' = 0
         /\ configs' = <<>> /\ machine_type' = None /\ arch' = None
    ELSE /\ pc' = "config" /\ ci' = ci /\ ki' = ki + 1
         /\ UNCHANGED <<configs, machine_type, arch>>

\* lines 139-168: the combination is parsed, then skipped or kept
Filter ==
    /\ pc = "config"
    /\ LET c == configs[ki]
       IN IF c.val.t # "str" \/ YamlIsNone(c.val.s)
          THEN /\ pc' = "raised" /\ error' = "AttributeError"
               /\ UNCHANGED <<ci, ki, skipped, configs, machine_type, arch>>
          ELSE IF SkipReason(c.val.s, arch, machine_type) # ""
          THEN /\ skipped' = Append(skipped, c.name.s)
               /\ NextCombination
               /\ error' = error
          ELSE /\ pc' = "mktemp"
               /\ UNCHANGED <<ci, ki, skipped, error, configs, machine_type, arch>>
    /\ UNCHANGED <<bmvars, emvars, resvars, MainArgs, order, temps, ntemps, pending, calls, would_run,
                   mark>>

\* line 177: temp = tempfile.NamedTemporaryFile()
CreateTemp ==
    /\ pc = "mktemp"
    /\ ntemps' = ntemps + 1
    /\ temps' = temps \cup {ntemps + 1}
    /\ pc' = "write"
    /\ UNCHANGED <<bmvars, emvars, resvars, MainArgs, order, machine_type, arch, ci, configs, ki,
                   pending, error, calls, would_run, skipped, mark>>

\* lines 179-180: temp.write(config), which may fail
WriteTemp ==
    /\ pc = "write"
    /\ \E written \in BOOLEAN :
          IF written THEN pc' = "dispatch" /\ pending' = ""
          ELSE pc' = "finally" /\ pending' = "IOError"
    /\ UNCHANGED <<bmvars, emvars, resvars, MainArgs, order, machine_type, arch, ci, configs, ki, temps,
                   ntemps, error, calls, would_run, skipped, mark>>

JobCall(desc, rc) == [kind |-> "job", desc |-> desc, rc |-> rc]
LastCall(rc) == [kind |-> "last-in-suite", desc |-> <<>>, rc |-> rc]

\* the dispatch with the scheduler's exit status ignored: subprocess.call
DispatchIgnoringStatus ==
    /\ pc = "dispatch"
    /\ IF dry_run
       THEN /\ would_run' = Append(would_run, configs[ki].name.s)
            /\ UNCHANGED calls
       ELSE /\ \E rc \in {0, 1} : calls' = Append(calls, JobCall(configs[ki].name.s, rc))
            /\ UNCHANGED would_run
    /\ pending' = ""
    /\ pc' = "finally"
    /\ UNCHANGED <<bmvars, emvars, resvars, MainArgs, order, machine_type, arch, ci, configs, ki, temps,
                   ntemps, error, skipped, mark>>

\* lines 182-187: log in a dry run, else subprocess.check_call(args=arg)
Dispatch ==
    /\ pc = "dispatch"
    /\ IF dry_run
       THEN /\ would_run' = Append(would_run, configs[ki].name.s)
            /\ pending' = ""
            /\ UNCHANGED calls
       ELSE /\ \E rc \in {0, 1} :
                  /\ calls' = Append(calls, JobCall(configs[ki].name.s, rc))
                  /\ pending' = IF rc = 0 THEN "" ELSE "CalledProcessError"
            /\ UNCHANGED would_run
    /\ pc' = "finally"
    /\ UNCHANGED <<bmvars, emvars, resvars, MainArgs, order, machine_type, arch, ci, configs, ki, temps,
                   ntemps, error, skipped, mark>>

\* temp.close() placed after the try block instead of in its finally clause
CloseOnlyOnSuccess ==
    /\ pc = "finally"
    /\ IF pending # ""
       THEN /\ pc' = "raised" /\ error' = pending
            /\ UNCHANGED <<ci, ki, temps, configs, machine_type, arch>>
       ELSE /\ temps' = temps \ {ntemps}
            /\ NextCombination /\ error' = error
    /\ pending' = ""
    /\ UNCHANGED <<bmvars, emvars, resvars, MainArgs, order, ntemps, calls, would_run, skipped, mark>>

\* lines 188-189: temp.close() deletes the file; a pending exception goes on
Finally ==
    /\ pc = "finally"
    /\ temps' = temps \ {ntemps}
    /\ IF pending # ""
       THEN /\ pc' = "raised" /\ error' = pending
            /\ UNCHANGED <<ci, ki, configs, machine_type, arch>>
       ELSE NextCombination /\ error' = error
    /\ pending' = ""
    /\ UNCHANGED <<bmvars, emvars, resvars, MainArgs, order, ntemps, calls, would_run, skipped, mark>>

\* lines 191-199: the '--last-in-suite' invocation, after the last collection
Sentinel ==
    /\ pc = "collection" /\ ci > Len(order)
    /\ \E rc \in {0, 1} :
          /\ calls' = Append(calls, LastCall(rc))
          /\ IF rc = 0 THEN pc' = "done" /\ error' = error
             ELSE pc' = "raised" /\ error' = "CalledProcessError"
    /\ UNCHANGED <<bmvars, emvars, resvars, MainArgs, order, machine_type, arch, ci, configs, ki, temps,
                   ntemps, pending, would_run, skipped, mark>>

Next ==
    \/ CheckCollections
    \/ EnterCollection
    \/ Filter
    \/ CreateTemp
    \/ WriteTemp
    \/ Dispatch
    \/ Finally
    \/ Sentinel

Spec == Init /\ [][Next]_vars

\* ------------------------------------------------------------ build_email_body

\* the characters of entry names, in code point order; a name is a sequence of them
CharOrder == <<"\n", ".", "0", "1", "2", "a">>
Digits == {"0", "1", "2"}

CharRank(c) == CHOOSE n \in 1..Len(CharOrder) : CharOrder[n] = c

\* a <= b as Python compares two strings
RECURSIVE StrLeq(_, _)
StrLeq(a, b) ==
    IF a = <<>> THEN TRUE
    ELSE IF b = <<>> THEN FALSE
    ELSE IF Head(a) # Head(b) THEN CharRank(Head(a)) < CharRank(Head(b))
    ELSE StrLeq(Tail(a), Tail(b))

\* sorted(jobs)
RECURSIVE SortedNames(_)
SortedNames(S) ==
    IF S = {} THEN <<>>
    ELSE LET m == CHOOSE x \in S : \A y \in S : StrLeq(x, y)
         IN <<m>> \o SortedNames(S \ {m})

\* re.match('\d+$', subdir): digits up to the end, or up to a final newline
MatchesDigits(subdir) ==
    \E n \in 1..Len(subdir) :
        /\ \A k \in 1..n : subdir[k] \in Digits
        /\ \/ n = Len(subdir)
           \/ n = Len(subdir) - 1 /\ subdir[Len(subdir)] = "\n"

\* is_job_dir(parent, subdir)
is_job_dir(dir, subdir) == dir[subdir].isdir /\ MatchesDigits(subdir)

\* get_jobs(archive_dir)
get_jobs(dir) == SortedNames({subdir \in DOMAIN dir : is_job_dir(dir, subdir)})

\* summary.yaml: absent, not parseable, empty (None), or a mapping
Summary(file, success, duration, failure_reason, sentry_events) ==
    [file |-> file, success |-> success, duration |-> duration,
     failure_reason |-> failure_reason, sentry_events |-> sentry_events]

NoSummary == Summary("absent", None, None, None, None)

Summaries ==
    {NoSummary, Summary("garbled", None, None, None, None),
     Summary("null", None, None, None, None)}
    \cup {Summary("map", su, du, fr, se) :
            su \in {None, "True", "False"}, du \in {None, "10"},
            fr \in {None, "timeout"}, se \in {None, "events"}}

Entries ==
    {[isdir |-> FALSE, summary |-> NoSummary]}
    \cup {[isdir |-> TRUE, summary |-> su] : su \in Summaries}

ArchiveNames == {<<"1">>, <<"2">>, <<"1", "0">>, <<"1", "a">>, <<"a">>}

\* the most entries of the archive directory
MaxEntries == 2

Archives ==
    UNION {[N -> Entries] : N \in {M \in SUBSET ArchiveNames : Cardinality(M) <= MaxEntries}}

InitEmail ==
    /\ MatrixIdle
    /\ MainIdle
    /\ ResultsIdle
    /\ archive \in Archives
    /\ em_pc = "start" /\ jobs = <<>> /\ ji = 0
    /\ failed = {} /\ hung = {} /\ passed = {} /\ em_error = "" /\ subject = <<>>

\* line 505: for job in get_jobs(archive_dir)
GetJobs ==
    /\ em_pc = "start"
    /\ jobs' = get_jobs(archive)
    /\ ji' = 1
    /\ em_pc' = "loop"
    /\ UNCHANGED <<bmvars, mainvars, resvars, archive, failed, hung, passed, em_error, subject>>

\* what reading and rendering one job's summary raises, or ""
SummaryError(su) ==
    IF su.file = "garbled" THEN "YAMLError"
    ELSE IF su.file = "null" THEN "TypeError"
    ELSE IF su.success = None THEN "KeyError"
    ELSE IF su.success = "True"
         THEN (IF su.duration = None THEN "TypeError" ELSE "")
    ELSE IF su.failure_reason = None THEN "AttributeError"
    ELSE IF su.duration = None THEN "TypeError"
    ELSE ""

\* an outcome file that does not parse counted as a failed job
ClassifyJobLenient ==
    /\ em_pc = "loop" /\ ji <= Len(jobs)
    /\ LET job == jobs[ji]
           su == archive[job].summary
       IN IF su.file = "absent"
          THEN /\ hung' = hung \cup {job}
               /\ ji' = ji + 1
               /\ UNCHANGED <<em_pc, failed, passed, em_error>>
          ELSE IF su.file = "garbled"
          THEN /\ failed' = failed \cup {job}
               /\ ji' = ji + 1
               /\ UNCHANGED <<em_pc, hung, passed, em_error>>
          ELSE IF SummaryError(su) # ""
          THEN /\ em_pc' = "raised" /\ em_error' = SummaryError(su)
               /\ UNCHANGED <<ji, failed, hung, passed>>
          ELSE IF su.success = "True"
          THEN /\ passed' = passed \cup {job}
               /\ ji' = ji + 1
               /\ UNCHANGED <<em_pc, failed, hung, em_error>>
          ELSE /\ failed' = failed \cup {job}
               /\ ji' = ji + 1
               /\ UNCHANGED <<em_pc, hung, passed, em_error>>
    /\ UNCHANGED <<bmvars, mainvars, resvars, archive, jobs, subject>>

\* lines 506-550: one job is classified, or its summary makes the call raise
ClassifyJob ==
    /\ em_pc = "loop" /\ ji <= Len(jobs)
    /\ LET job == jobs[ji]
           su == archive[job].summary
       IN IF su.file = "absent"
          THEN /\ hung' = hung \cup {job}
               /\ ji' = ji + 1
               /\ UNCHANGED <<em_pc, failed, passed, em_error>>
          ELSE IF SummaryError(su) # ""
          THEN /\ em_pc' = "raised" /\ em_error' = SummaryError(su)
               /\ UNCHANGED <<ji, failed, hung, passed>>
          ELSE IF su.success = "True"
          THEN /\ passed' = passed \cup {job}
               /\ ji' = ji + 1
               /\ UNCHANGED <<em_pc, failed, hung, em_error>>
          ELSE /\ failed' = failed \cup {job}
               /\ ji' = ji + 1
               /\ UNCHANGED <<em_pc, hung, passed, em_error>>
    /\ UNCHANGED <<bmvars, mainvars, resvars, archive, jobs, subject>>

SubjectPart(n, label, more) ==
    [n |-> n, label |-> label, sep |-> IF more THEN ", " ELSE " "]

\* lines 552-594: the subject names the classes that are not empty
BuildSubject ==
    /\ em_pc = "loop" /\ ji > Len(jobs)
    /\ subject' =
          (IF failed # {}
           THEN <<SubjectPart(Cardinality(failed), "failed", hung # {} \/ passed # {})>>
           ELSE <<>>)
          \o (IF hung # {}
              THEN <<SubjectPart(Cardinality(hung), "hung", passed # {})>>
              ELSE <<>>)
          \o (IF passed # {}
              THEN <<SubjectPart(Cardinality(passed), "passed", FALSE)>>
              ELSE <<>>)
    /\ em_pc' = "done"
    /\ UNCHANGED <<bmvars, mainvars, resvars, archive, jobs, ji, failed, hung, passed, em_error>>

NextEmail ==
    \/ GetJobs
    \/ ClassifyJob
    \/ BuildSubject

SpecEmail == InitEmail /\ [][NextEmail]_vars

\* ------------------------------------------------------------ _results

\* time.sleep(10)
SleepSeconds == 10

\* args.timeout: --timeout takes any int and defaults to 0
Timeouts == {-5, 0, 5, 20}

\* how long after the end of time.sleep the clock is read again
Delays == {0, 5}

\* the outcome files a job that finishes writes
Finished ==
    {Summary("map", "True", "10", None, None),
     Summary("map", "False", "10", "timeout", None)}

ResultsEntries ==
    {[isdir |-> FALSE, summary |-> NoSummary], [isdir |-> TRUE, summary |-> NoSummary]}
    \cup {[isdir |-> TRUE, summary |-> su] : su \in Finished}

ResultsNames == {<<"1">>, <<"2">>, <<"a">>, <<".", "a">>}

ResultsArchives ==
    UNION {[N -> ResultsEntries] :
             N \in {M \in SUBSET ResultsNames : Cardinality(M) <= MaxEntries}}

InitResults ==
    /\ MatrixIdle
    /\ MainIdle
    /\ archive \in ResultsArchives
    /\ em_pc = "idle" /\ jobs = <<>> /\ ji = 0
    /\ failed = {} /\ hung = {} /\ passed = {} /\ em_error = "" /\ subject = <<>>
    /\ r_pc = "start"
    /\ timeout \in Timeouts
    /\ running_tests = <<>> /\ now = 0 /\ warned = FALSE

\* os.path.exists(os.path.join(args.archive_dir, f, 'summary.yaml'))
SummaryExists(f) == archive[f].summary.file # "absent"

\* lines 405-411: the list comprehension over sorted(os.listdir(archive_dir))
ListRunning(dir) ==
    SortedNames({f \in DOMAIN dir :
                   /\ f[1] # "."
                   /\ dir[f].isdir
                   /\ dir[f].summary.file = "absent"})

\* lines 405-412: running_tests is listed and the clock started
StartWaiting ==
    /\ r_pc = "start"
    /\ running_tests' = ListRunning(archive)
    /\ now' = 0
    /\ r_pc' = "loop"
    /\ UNCHANGED <<bmvars, mainvars, emvars, timeout, warned>>

\* line 413: while running_tests and args.timeout > 0
Waiting == r_pc = "loop" /\ running_tests # <<>> /\ timeout > 0

\* lines 414-417: the last directory waited for has its summary.yaml
PopFinished ==
    /\ Waiting
    /\ SummaryExists(running_tests[Len(running_tests)])
    /\ running_tests' = SubSeq(running_tests, 1, Len(running_tests) - 1)
    /\ UNCHANGED <<bmvars, mainvars, emvars, r_pc, timeout, now, warned>>

\* lines 418-423: it has none and the timeout has not passed: time.sleep(10)
Sleep ==
    /\ Waiting
    /\ ~SummaryExists(running_tests[Len(running_tests)])
    /\ ~(now > timeout)
    /\ r_pc' = "sleep"
    /\ UNCHANGED <<bmvars, mainvars, emvars, timeout, running_tests, now, warned>>

\* time.sleep(10) returns, 10 seconds or more after it was called
WakeUp ==
    /\ r_pc = "sleep"
    /\ \E d \in Delays : now' = now + SleepSeconds + d
    /\ r_pc' = "loop"
    /\ UNCHANGED <<bmvars, mainvars, emvars, timeout, running_tests, warned>>

\* lines 419-422, 424-427: it has none and the timeout has passed: the
\* warning is logged, the loop left and build_email_body called
TimedOut ==
    /\ Waiting
    /\ ~SummaryExists(running_tests[Len(running_tests)])
    /\ now > timeout
    /\ warned' = TRUE
    /\ r_pc' = "report"
    /\ em_pc' = "start"
    /\ UNCHANGED <<bmvars, mainvars, archive, jobs, ji, failed, hung, passed, em_error,
                   subject, timeout, running_tests, now>>

\* lines 413, 424-427: the loop condition is false: build_email_body is called
LoopExit ==
    /\ r_pc = "loop"
    /\ ~Waiting
    /\ r_pc' = "report"
    /\ em_pc' = "start"
    /\ UNCHANGED <<bmvars, mainvars, archive, jobs, ji, failed, hung, passed, em_error,
                   subject, timeout, running_tests, now, warned>>

\* a running job writes its summary.yaml
JobFinishes ==
    /\ r_pc # "idle" /\ em_pc \notin {"done", "raised"}
    /\ \E f \in DOMAIN archive :
          /\ is_job_dir(archive, f)
          /\ ~SummaryExists(f)
          /\ \E su \in Finished :
                archive' = [archive EXCEPT ![f] = [isdir |-> TRUE, summary |-> su]]
    /\ UNCHANGED <<bmvars, mainvars, resvars, em_pc, jobs, ji, failed, hung, passed,
                   em_error, subject>>

\* the steps of _results itself
StepResults ==
    \/ StartWaiting
    \/ PopFinished
    \/ Sleep
    \/ WakeUp
    \/ TimedOut
    \/ LoopExit
    \/ GetJobs
    \/ ClassifyJob
    \/ BuildSubject

NextResults ==
    \/ StepResults
    \/ JobFinishes

\* _results keeps running and the clock keeps going; no job has to finish
SpecResults == InitResults /\ [][NextResults]_vars /\ WF_vars(StepResults)

\* ------------------------------------------------------------ build_email_body: claims

\* the all-digit subdirectories of the archive directory
JobDirs == {n \in DOMAIN archive : archive[n].isdir /\ \A k \in 1..Len(n) : n[k] \in Digits}

\* every outcome file that exists is a mapping with success, description and
\* duration, as the archive layout of the interface requires
OutcomesWellFormed ==
    \A n \in JobDirs :
        \/ archive[n].summary.file = "absent"
        \/ /\ archive[n].summary.file = "map"
           /\ archive[n].summary.success # None
           /\ archive[n].summary.duration # None

\* C9: build_email_body puts every all-digit job subdirectory into exactly one
\* of Passed, Failed, Hung: no outcome file is Hung, success true is Passed,
\* success not true is Failed, with or without failure_reason and sentry_events.
C9_ClassifiesEveryJob ==
    (OutcomesWellFormed /\ em_pc \in {"done", "raised"}) =>
        /\ em_pc = "done"
        /\ hung = {n \in JobDirs : archive[n].summary.file = "absent"}
        /\ passed = {n \in JobDirs : archive[n].summary.file = "map"
                                       /\ archive[n].summary.success = "True"}
        /\ failed = {n \in JobDirs : archive[n].summary.file = "map"
                                       /\ archive[n].summary.success # "True"}
        /\ hung \cap passed = {} /\ hung \cap failed = {} /\ passed \cap failed = {}
        /\ hung \cup passed \cup failed = JobDirs

\* a job's outcome file exists but does not parse, and every other job's can
\* be read and rendered
OneGarbled(n) ==
    /\ n \in JobDirs /\ archive[n].summary.file = "garbled"
    /\ \A m \in JobDirs \ {n} :
          archive[m].summary.file = "absent" \/ SummaryError(archive[m].summary) = ""

\* C10 as stated: a job whose outcome file fails to parse is classified Failed,
\* and the report for the other jobs is still produced.
C10_ParseErrorIsFailed ==
    \A n \in DOMAIN archive :
        (OneGarbled(n) /\ em_pc \in {"done", "raised"}) =>
            em_pc = "done" /\ n \in failed /\ n \notin hung

\* C10 amended: when a job's outcome file exists but fails to parse,
\* build_email_body never returns a report: it raises the parse error when it
\* reaches that job, which is put in none of the three classes.
C10_ParseErrorRaises ==
    \A n \in JobDirs :
        archive[n].summary.file = "garbled" =>
            /\ em_pc # "done" /\ subject = <<>>
            /\ n \notin failed \cup hung \cup passed
            /\ (em_pc = "raised" /\ jobs[ji] = n) => em_error = "YAMLError"
            /\ (em_pc = "loop" /\ ji <= Len(jobs)) => \E k \in ji..Len(jobs) : jobs[k] = n

\* the call raised at an unparseable outcome file after classifying another job
C10_Witness ==
    /\ em_pc = "raised" /\ em_error = "YAMLError"
    /\ ji = 2 /\ OneGarbled(jobs[2])
    /\ jobs[1] \in passed \cup failed

\* ------------------------------------------------------------ main: claims

\* C1: once a scheduler invocation for a combination returns nonzero it is the
\* last invocation of the run (no later combination, no '--last-in-suite'),
\* and main ends by raising CalledProcessError.
C1_AbortOnFailedDispatch ==
    \A k \in 1..Len(calls) :
        (calls[k].kind = "job" /\ calls[k].rc # 0) =>
            /\ k = Len(calls)
            /\ \/ pc = "finally" /\ pending = "CalledProcessError"
               \/ pc = "raised" /\ error = "CalledProcessError"

\* a dispatch failed after an earlier one succeeded, with combinations left
C1_Witness ==
    /\ pc = "raised" /\ error = "CalledProcessError"
    /\ Len(calls) = 2 /\ calls[1].rc = 0
    /\ calls[2].kind = "job" /\ calls[2].rc = 1
    /\ (ki < Len(configs) \/ ci < Len(order))

C3_TempFileScoped ==
    /\ Cardinality(temps) <= 1
    /\ temps \subseteq {ntemps}
    /\ temps # {} => pc \in {"write", "dispatch", "finally"}
    /\ pc \in {"done", "raised", "exit"} => temps = {}

\* main ended on a failed write of the second transient file
C3_Witness ==
    /\ pc = "raised" /\ error = "IOError"
    /\ ntemps = 2 /\ temps = {}

\* the selection rule as the claim states it
ClaimSkips(text, a, mt) ==
    \/ YamlGet(text, "exclude_arch") # None /\ YamlGet(text, "exclude_arch") = a
    \/ /\ YamlGet(text, "exclude_os_type") # None
       /\ YamlGet(text, "exclude_os_type") = YamlGet(text, "os_type")
    \/ /\ mt # "vps" /\ YamlGet(text, "os_type") # None
       /\ YamlGet(text, "os_type") # "ubuntu"

JobDescs(cs) == [j \in 1..Len(cs) |-> cs[j].desc]

SurvivorDescs(cs, a, mt) ==
    LET kept == SelectSeq(cs, LAMBDA c : ~ClaimSkips(c.val.s, a, mt))
    IN [j \in 1..Len(kept) |-> kept[j].name.s]

\* C4: a non-dry run in which no dispatch fails makes the '--last-in-suite'
\* invocation exactly once, as its last call; before it the surviving
\* combinations are dispatched one after another, collections in sorted order
\* and combinations in build_matrix order.
C4_SentinelOnceAndLast ==
    /\ \A k \in 1..Len(calls) : calls[k].kind = "last-in-suite" => k = Len(calls)
    /\ \A j, k \in 1..Len(order) : j < k => Rank(order[j]) <= Rank(order[k])
    /\ (~dry_run /\ pc \in {"config", "mktemp", "write", "dispatch"}) =>
          JobDescs(SubSeq(calls, mark + 1, Len(calls)))
            = SurvivorDescs(SubSeq(configs, 1, ki - 1), arch, machine_type)
    /\ (/\ ~dry_run /\ pc \in {"done", "raised"}
        /\ error \notin {"CalledProcessError", "IOError"}) =>
          /\ calls # <<>>
          /\ calls[Len(calls)].kind = "last-in-suite"

\* C5: main skips a combination (no transient file, no scheduler call) exactly
\* when exclude_arch is set and equals the resolved arch, or exclude_os_type is
\* set and equals os_type, or machine_type is not 'vps' and os_type is set and
\* is not 'ubuntu'; otherwise it goes on to dispatch it.
C5_FilterDecides ==
    [][pc = "config" =>
          IF ClaimSkips(configs[ki].val.s, arch, machine_type)
          THEN /\ skipped' = Append(skipped, configs[ki].name.s)
               /\ pc' \in {"config", "collection"}
               /\ ntemps' = ntemps /\ calls' = calls
          ELSE pc' = "mktemp" /\ skipped' = skipped]_vars

\* ------------------------------------------------------------ build_matrix: claims

IsConcatDir(node) == node.isdir /\ "+" \in DOMAIN node.ents
IsConvolveDir(node) == node.isdir /\ "+" \notin DOMAIN node.ents /\ "%" \in DOMAIN node.ents
IsListDir(node) == node.isdir /\ "+" \notin DOMAIN node.ents /\ "%" \notin DOMAIN node.ents

\* the children of a directory in lexicographic order, a marker aside
ChildNames(node, marker) ==
    SelectSeq(NameOrder, LAMBDA n : n \in DOMAIN node.ents /\ n # marker)

ChildRet(node, marker, i) ==
    build_matrix(ChildNames(node, marker)[i], node.ents[ChildNames(node, marker)[i]])

ChildrenCompile(node, marker) ==
    \A i \in 1..Len(ChildNames(node, marker)) : ChildRet(node, marker, i).st = "ok"

RECURSIVE ProdFrom(_, _, _)
ProdFrom(node, marker, i) ==
    IF i > Len(ChildNames(node, marker)) THEN 1
    ELSE Len(ChildRet(node, marker, i).out) * ProdFrom(node, marker, i + 1)

\* the combination of child i chosen by the j-th tuple, the last child varying fastest
Chosen(node, i, j) ==
    LET c == Len(ChildRet(node, "%", i).out)
        stride == ProdFrom(node, "%", i + 1)
    IN ChildRet(node, "%", i).out[(((j - 1) \div stride) % c) + 1]

\* the child's filename combined with the child's own fragment
ChosenName(node, i, j) ==
    IF Chosen(node, i, j).name.t = "None" THEN <<ChildNames(node, "%")[i]>>
    ELSE <<ChildNames(node, "%")[i], "/">> \o Chosen(node, i, j).name.s

RECURSIVE SpaceJoined(_, _, _)
SpaceJoined(node, i, j) ==
    IF i > Len(ChildNames(node, "%")) THEN <<>>
    ELSE IF i = Len(ChildNames(node, "%")) THEN ChosenName(node, i, j)
    ELSE ChosenName(node, i, j) \o <<" ">> \o SpaceJoined(node, i + 1, j)

RECURSIVE NewlineJoined(_, _, _)
NewlineJoined(node, i, j) ==
    IF i > Len(ChildNames(node, "%")) THEN <<>>
    ELSE IF i = Len(ChildNames(node, "%")) THEN Chosen(node, i, j).val.s
    ELSE Chosen(node, i, j).val.s \o <<NL>> \o NewlineJoined(node, i + 1, j)

\* C6: a Convolve directory whose children compile to c1..cn combinations
\* compiles to c1*...*cn combinations, one per tuple of the product with the
\* last child varying fastest; each one's content is the newline-join of the
\* chosen contents and its name the brace-wrapped, space-joined child names.
C6_ConvolveIsProduct ==
    (bm_ret # NotCalled /\ IsConvolveDir(bm_node) /\ ChildrenCompile(bm_node, "%")) =>
        /\ bm_ret.st = "ok"
        /\ Len(bm_ret.out) = ProdFrom(bm_node, "%", 1)
        /\ \A j \in 1..Len(bm_ret.out) :
              /\ bm_ret.out[j].name = PyStr(<<"{">> \o SpaceJoined(bm_node, 1, j) \o <<"}">>)
              /\ bm_ret.out[j].val = PyStr(NewlineJoined(bm_node, 1, j))

\* all the children's combinations, children in lexicographic order
RECURSIVE AllChildCombos(_, _)
AllChildCombos(node, i) ==
    IF i > Len(ChildNames(node, "+")) THEN <<>>
    ELSE ChildRet(node, "+", i).out \o AllChildCombos(node, i + 1)

RECURSIVE NewlineJoinAll(_)
NewlineJoinAll(combos) ==
    IF combos = <<>> THEN <<>>
    ELSE IF Len(combos) = 1 THEN combos[1].val.s
    ELSE combos[1].val.s \o <<NL>> \o NewlineJoinAll(Tail(combos))

\* C7: a Concat directory compiles to exactly one combination, whose name is
\* '+' and whose content is a string: the newline-join of the content strings
\* of all the children's combinations.
C7_ConcatIsOneString ==
    (bm_ret # NotCalled /\ IsConcatDir(bm_node) /\ ChildrenCompile(bm_node, "+")) =>
        /\ bm_ret.st = "ok"
        /\ Len(bm_ret.out) = 1
        /\ bm_ret.out[1].name = PyStr(<<"+">>)
        /\ bm_ret.out[1].val = PyStr(NewlineJoinAll(AllChildCombos(bm_node, 1)))

\* the number of "/" tokens of a name that no brace pair encloses
RECURSIVE SlashesOutside(_, _)
SlashesOutside(toks, depth) ==
    IF toks = <<>> THEN 0
    ELSE IF Head(toks) = "{" THEN SlashesOutside(Tail(toks), depth + 1)
    ELSE IF Head(toks) = "}" THEN SlashesOutside(Tail(toks), depth - 1)
    ELSE (IF Head(toks) = "/" /\ depth = 0 THEN 1 ELSE 0) + SlashesOutside(Tail(toks), depth)

\* the number of directory levels of a tree
RECURSIVE DirHeight(_)
DirHeight(node) ==
    IF ~node.isdir THEN 0
    ELSE LET hs == {DirHeight(node.ents[n]) : n \in DOMAIN node.ents}
         IN 1 + (IF hs = {} THEN 0 ELSE CHOOSE h \in hs : \A g \in hs : g <= h)

AllJobsHaveOutcomes == \A n \in JobDirs : archive[n].summary.file # "absent"

\* C11: with a nonzero timeout, _results never goes (back) to sleep while
\* every job (all-digit subdirectory) already has its outcome file; the wait
\* always ends and build_email_body is called, after a logged warning when
\* the timeout was hit.
C11_NoSleepWhenJobsDone ==
    [][(timeout # 0 /\ r_pc = "loop" /\ r_pc' = "sleep") => ~AllJobsHaveOutcomes]_vars

\* the wait always ends with the call of build_email_body
C11_WaitEnds == <>(r_pc = "report" /\ em_pc # "idle")

\* the warning is logged only on leaving the loop for build_email_body, with
\* the timeout passed and a directory still without summary.yaml
C11_TimeoutIsWarning ==
    warned =>
        /\ r_pc = "report" /\ em_pc # "idle"
        /\ timeout > 0 /\ now > timeout
        /\ running_tests # <<>>

\* the warning was logged and the report built with a job still hung
C11_TimedOutReported ==
    warned /\ em_pc = "done" /\ hung # {}

\* the wait ended without a warning after a sleep, all jobs having finished
C11_FinishedInTime ==
    ~warned /\ r_pc = "report" /\ now > 0 /\ timeout > 0 /\ JobDirs # {}
    /\ AllJobsHaveOutcomes

\* _results sleeps although no all-digit subdirectory lacks its outcome file
C11_SleepsForNoJob ==
    r_pc = "sleep" /\ JobDirs # {} /\ AllJobsHaveOutcomes /\ running_tests # <<>>
    /\ \A k \in 1..Len(running_tests) : ~is_job_dir(archive, running_tests[k])

====
